---------------------------- MODULE Spec2Model ----------------------------
(***************************************************************************)
(* Model of the blackbox log decoder's header state machine                *)
(* (src/parser/headers/mod.rs), of the negative_14_bit codec               *)
(* (src/parser/decode/negative_14_bit.rs), of sign_extend and              *)
(* zig_zag_decode (src/parser/decode/mod.rs) and of the fuzz target of     *)
(* tagged_16 (fuzz/fuzz_targets/tagged_16_v2.rs).                          *)
(*                                                                         *)
(* A byte is a one-character string for ASCII and a token "0xNN" for a     *)
(* byte >= 0x80; a &str or &[u8] is a sequence of bytes.  Option<T> is a    *)
(* sequence of length 0 (None) or 1 (Some).                                *)
(***************************************************************************)
EXTENDS Integers, Sequences, FiniteSets, TLC

VARIABLES
    input,      \* the byte slice behind the Reader
    pos,        \* ByteReader cursor: number of bytes consumed
    pc,         \* position of Headers::parse
    state,      \* the State builder of Headers::parse
    result,     \* what Headers::parse returned (or the panic that ended it)
    n14_bytes,  \* the byte slice handed to negative_14_bit
    n14_out,    \* what negative_14_bit returned
    ph_out,     \* what a direct call of parse_header returned
    zz_in,      \* the u32 handed to zig_zag_decode
    zz_out,     \* what zig_zag_decode returned
    se_in,      \* the (from, bits) handed to sign_extend
    se_out,     \* what sign_extend returned
    t16_in,     \* the byte slice handed to tagged_16
    t16_out     \* what tagged_16 returned

\* The variables of the calls of single functions other than negative_14_bit
others == <<ph_out, zz_in, zz_out, se_in, se_out, t16_in, t16_out>>

vars == <<input, pos, pc, state, result, n14_bytes, n14_out, others>>

----------------------------------------------------------------------------
(* String literals of the source *)

S_Product == <<"P", "r", "o", "d", "u", "c", "t">>
S_DataVersion == <<"D", "a", "t", "a", " ", "v", "e", "r", "s", "i", "o", "n">>
S_firmware_revision == <<"f", "i", "r", "m", "w", "a", "r", "e", " ", "r", "e", "v", "i", "s", "i", "o", "n">>
S_firmware_type == <<"f", "i", "r", "m", "w", "a", "r", "e", " ", "t", "y", "p", "e">>
S_FirmwareType == <<"F", "i", "r", "m", "w", "a", "r", "e", " ", "t", "y", "p", "e">>
S_board_information == <<"b", "o", "a", "r", "d", " ", "i", "n", "f", "o", "r", "m", "a", "t", "i", "o", "n">>
S_craft_name == <<"c", "r", "a", "f", "t", " ", "n", "a", "m", "e">>
S_vbatref == <<"v", "b", "a", "t", "r", "e", "f">>
S_minthrottle == <<"m", "i", "n", "t", "h", "r", "o", "t", "t", "l", "e">>
S_motoroutput == <<"m", "o", "t", "o", "r", "o", "u", "t", "p", "u", "t">>
S_cleanflight == <<"c", "l", "e", "a", "n", "f", "l", "i", "g", "h", "t">>
S_baseflight == <<"b", "a", "s", "e", "f", "l", "i", "g", "h", "t">>
S_inav == <<"i", "n", "a", "v">>

----------------------------------------------------------------------------
(* Rust std string operations, as far as the source uses them *)

None == <<>>
Some(v) == <<v>>
Unwrap(o) == o[1]

UpperCase == <<"A","B","C","D","E","F","G","H","I","J","K","L","M",
               "N","O","P","Q","R","S","T","U","V","W","X","Y","Z">>
LowerCase == <<"a","b","c","d","e","f","g","h","i","j","k","l","m",
               "n","o","p","q","r","s","t","u","v","w","x","y","z">>

\* u8::to_ascii_lowercase
LowerOf ==
    [c \in {UpperCase[i] : i \in 1..Len(UpperCase)} |->
        LowerCase[CHOOSE i \in 1..Len(UpperCase) : UpperCase[i] = c]]

char_to_ascii_lowercase(c) == IF c \in DOMAIN LowerOf THEN LowerOf[c] ELSE c

\* str::to_ascii_lowercase
to_ascii_lowercase(s) == [i \in 1..Len(s) |-> char_to_ascii_lowercase(s[i])]

\* Index of the first occurrence of byte c in s at or after index from, 0 if none
RECURSIVE IndexFrom(_, _, _)
IndexFrom(s, c, from) ==
    IF from > Len(s) THEN 0
    ELSE IF s[from] = c THEN from
    ELSE IndexFrom(s, c, from + 1)

\* str::split_once: None, or Some(<<before, after>>) around the first c
split_once(s, c) ==
    LET i == IndexFrom(s, c, 1)
    IN  IF i = 0 THEN None
        ELSE Some(<<SubSeq(s, 1, i-1), SubSeq(s, i+1, Len(s))>>)

\* str::strip_prefix(' ').unwrap_or(line)
strip_space(s) ==
    IF Len(s) > 0 /\ s[1] = " " THEN SubSeq(s, 2, Len(s)) ELSE s

\* Bytes >= 0x80 of the model's alphabet: 0xC3 leads a two-byte sequence,
\* 0xA9 is a continuation byte, 0xFF occurs in no UTF-8 encoding.
NonAscii == {"0xC3", "0xA9", "0xFF"}
Utf8Lead2 == {"0xC3"}
Utf8Cont == {"0xA9"}

\* str::from_utf8(..).is_ok()
RECURSIVE Utf8ValidFrom(_, _)
Utf8ValidFrom(s, i) ==
    IF i > Len(s) THEN TRUE
    ELSE IF s[i] \notin NonAscii THEN Utf8ValidFrom(s, i+1)
    ELSE IF s[i] \in Utf8Lead2
         THEN i+1 <= Len(s) /\ s[i+1] \in Utf8Cont /\ Utf8ValidFrom(s, i+2)
    ELSE FALSE

from_utf8_ok(s) == Utf8ValidFrom(s, 1)

Digits == <<"0","1","2","3","4","5","6","7","8","9">>
IsDigit(c) == \E i \in 1..10 : Digits[i] = c
DigitVal(c) == (CHOOSE i \in 1..10 : Digits[i] = c) - 1

RECURSIVE DecimalValue(_)
DecimalValue(s) ==
    IF Len(s) = 0 THEN 0
    ELSE DecimalValue(SubSeq(s, 1, Len(s)-1)) * 10 + DigitVal(s[Len(s)])

U16_MAX == 65535

\* <u16 as FromStr>::from_str: an optional '+', then one or more decimal
\* digits, the value at most u16::MAX
parse_u16(s) ==
    LET d == IF Len(s) > 0 /\ s[1] = "+" THEN SubSeq(s, 2, Len(s)) ELSE s
    IN  IF Len(d) = 0 \/ \E i \in 1..Len(d) : ~IsDigit(d[i]) THEN None
        ELSE IF DecimalValue(d) > U16_MAX THEN None
        ELSE Some(DecimalValue(d))

----------------------------------------------------------------------------
(* ParseError *)

Err(k, h, v) == [kind |-> k, header |-> h, value |-> v]
NoErr == Err("", <<>>, <<>>)
UnexpectedEof == Err("UnexpectedEof", <<>>, <<>>)
Corrupted == Err("Corrupted", <<>>, <<>>)
HeaderInvalidUtf8 == Err("HeaderInvalidUtf8", <<>>, <<>>)
HeaderMissingColon == Err("HeaderMissingColon", <<>>, <<>>)
InvalidHeader(h, v) == Err("InvalidHeader", h, v)

----------------------------------------------------------------------------
(* ByteReader *)

\* ByteReader::peek
peek(bytes, p) == IF p < Len(bytes) THEN Some(bytes[p+1]) ELSE None

\* ByteReader::read_line: the slice up to and excluding the next '\n', the
\* cursor moved past the '\n'; None (cursor unmoved) when no '\n' remains
read_line(bytes, p) ==
    LET i == IndexFrom(bytes, "\n", p+1)
    IN  IF i = 0 THEN [line |-> None, pos |-> p]
        ELSE [line |-> Some(SubSeq(bytes, p+1, i-1)), pos |-> i]

\* parse_header that looks for the ':' in the bytes before it checks UTF-8
parse_header_ColonFirst(bytes, p) ==
    LET fail(e, q) == [ok |-> FALSE, err |-> e, name |-> <<>>, value |-> <<>>, pos |-> q]
        first == peek(bytes, p)
        rl == read_line(bytes, p+1)
        line == strip_space(Unwrap(rl.line))
        nv == split_once(line, ":")
    IN  IF first = None THEN fail(UnexpectedEof, p)
        ELSE IF Unwrap(first) # "H" THEN fail(Corrupted, p+1)
        ELSE IF rl.line = None THEN fail(UnexpectedEof, rl.pos)
        ELSE IF nv = None THEN fail(HeaderMissingColon, rl.pos)
        ELSE IF ~from_utf8_ok(Unwrap(rl.line)) THEN fail(HeaderInvalidUtf8, rl.pos)
        ELSE [ok |-> TRUE, err |-> NoErr, name |-> Unwrap(nv)[1],
              value |-> Unwrap(nv)[2], pos |-> rl.pos]

\* parse_header without the strip_prefix of line 230
parse_header_NoStrip(bytes, p) ==
    LET fail(e, q) == [ok |-> FALSE, err |-> e, name |-> <<>>, value |-> <<>>, pos |-> q]
        first == peek(bytes, p)
        rl == read_line(bytes, p+1)
        line == Unwrap(rl.line)
        nv == split_once(line, ":")
    IN  IF first = None THEN fail(UnexpectedEof, p)
        ELSE IF Unwrap(first) # "H" THEN fail(Corrupted, p+1)
        ELSE IF rl.line = None THEN fail(UnexpectedEof, rl.pos)
        ELSE IF ~from_utf8_ok(Unwrap(rl.line)) THEN fail(HeaderInvalidUtf8, rl.pos)
        ELSE IF nv = None THEN fail(HeaderMissingColon, rl.pos)
        ELSE [ok |-> TRUE, err |-> NoErr, name |-> Unwrap(nv)[1],
              value |-> Unwrap(nv)[2], pos |-> rl.pos]

\* parse_header: [ok, err, name, value, pos]
parse_header(bytes, p) ==
    LET fail(e, q) == [ok |-> FALSE, err |-> e, name |-> <<>>, value |-> <<>>, pos |-> q]
        first == peek(bytes, p)
        rl == read_line(bytes, p+1)
        line == strip_space(Unwrap(rl.line))
        nv == split_once(line, ":")
    IN  IF first = None THEN fail(UnexpectedEof, p)
        ELSE IF Unwrap(first) # "H" THEN fail(Corrupted, p+1)
        ELSE IF rl.line = None THEN fail(UnexpectedEof, rl.pos)
        ELSE IF ~from_utf8_ok(Unwrap(rl.line)) THEN fail(HeaderInvalidUtf8, rl.pos)
        ELSE IF nv = None THEN fail(HeaderMissingColon, rl.pos)
        ELSE [ok |-> TRUE, err |-> NoErr, name |-> Unwrap(nv)[1],
              value |-> Unwrap(nv)[2], pos |-> rl.pos]

----------------------------------------------------------------------------
(* Frame definitions (module parser::frame) *)

S_FieldPrefix == <<"F", "i", "e", "l", "d", " ">>
S_name == <<"n", "a", "m", "e">>
S_signed == <<"s", "i", "g", "n", "e", "d">>
S_predictor == <<"p", "r", "e", "d", "i", "c", "t", "o", "r">>
S_encoding == <<"e", "n", "c", "o", "d", "i", "n", "g">>
S_width == <<"w", "i", "d", "t", "h">>

UnknownHeader(h) == Err("UnknownHeader", h, <<>>)

starts_with(s, prefix) ==
    Len(s) >= Len(prefix) /\ SubSeq(s, 1, Len(prefix)) = prefix

\* FrameKind::from_letter
FrameKind_from_letter(k) ==
    IF k = <<"I">> THEN Some("Intra")
    ELSE IF k = <<"P">> THEN Some("Inter")
    ELSE IF k = <<"S">> THEN Some("Slow")
    ELSE None

\* The frame property a `Field <K> <P>` header names
FrameProperty_from_name(p) ==
    IF p = S_name THEN Some("name")
    ELSE IF p = S_signed THEN Some("signed")
    ELSE IF p = S_predictor THEN Some("predictor")
    ELSE IF p = S_encoding THEN Some("encoding")
    ELSE IF p = S_width THEN Some("width")
    ELSE None

\* is_frame_def_header: the header has the `Field ...` form
is_frame_def_header(header) == starts_with(header, S_FieldPrefix)

\* parse_frame_def_header: [ok, err, kind, property]
parse_frame_def_header(header) ==
    LET rest == SubSeq(header, Len(S_FieldPrefix) + 1, Len(header))
        kp == split_once(rest, " ")
        kind == IF kp = None THEN None ELSE FrameKind_from_letter(Unwrap(kp)[1])
        prop == IF kp = None THEN None ELSE FrameProperty_from_name(Unwrap(kp)[2])
    IN  IF ~starts_with(header, S_FieldPrefix) \/ kind = None \/ prop = None
        THEN [ok |-> FALSE, err |-> UnknownHeader(header), kind |-> "", property |-> ""]
        ELSE [ok |-> TRUE, err |-> NoErr, kind |-> Unwrap(kind), property |-> Unwrap(prop)]

StoredProps == {"name", "signed", "predictor", "encoding"}

\* MainFrameDef::builder
MainFrameDef_builder == [k \in {"Intra", "Inter"} |-> [p \in StoredProps |-> None]]

\* SlowFrameDef::builder
SlowFrameDef_builder == [p \in StoredProps |-> None]

\* MainFrameDefBuilder::update; `width` is recognized and ignored
MainFrameDefBuilder_update(b, kind, property, value) ==
    IF property \in StoredProps
    THEN [b EXCEPT ![kind][property] = Some(value)]
    ELSE b

\* SlowFrameDefBuilder::update
SlowFrameDefBuilder_update(b, property, value) ==
    IF property \in StoredProps
    THEN [b EXCEPT ![property] = Some(value)]
    ELSE b

\* The comma-separated list of a frame-definition value; an absent header
\* is the empty list
RECURSIVE split_commas(_)
split_commas(s) ==
    LET i == IndexFrom(s, ",", 1)
    IN  IF i = 0 THEN <<s>>
        ELSE <<SubSeq(s, 1, i-1)>> \o split_commas(SubSeq(s, i+1, Len(s)))

list_of(o) == IF o = None THEN <<>> ELSE split_commas(Unwrap(o))

NoFrameDef == [names |-> <<>>, signs |-> <<>>, predictors |-> <<>>, encodings |-> <<>>]

\* SlowFrameDefBuilder::parse: [ok, err, def]; the four lists must have
\* equal length
SlowFrameDefBuilder_parse(b) ==
    LET def == [names |-> list_of(b["name"]), signs |-> list_of(b["signed"]),
                predictors |-> list_of(b["predictor"]),
                encodings |-> list_of(b["encoding"])]
    IN  IF /\ Len(def.signs) = Len(def.names)
           /\ Len(def.predictors) = Len(def.names)
           /\ Len(def.encodings) = Len(def.names)
        THEN [ok |-> TRUE, err |-> NoErr, def |-> def]
        ELSE [ok |-> FALSE, err |-> Corrupted, def |-> NoFrameDef]

NoMainFrameDef == [intra |-> NoFrameDef, inter |-> NoFrameDef]

\* MainFrameDefBuilder::parse: [ok, err, def]; the lists of I must have equal
\* length, the predictors and encodings of P the same length, and the names
\* of P, when given, must be the names of I
MainFrameDefBuilder_parse(b) ==
    LET i == SlowFrameDefBuilder_parse(b["Intra"])
        pn == list_of(b["Inter"]["name"])
        pp == list_of(b["Inter"]["predictor"])
        pe == list_of(b["Inter"]["encoding"])
    IN  IF /\ i.ok
           /\ Len(pp) = Len(i.def.names)
           /\ Len(pe) = Len(i.def.names)
           /\ (b["Inter"]["name"] # None => pn = i.def.names)
        THEN [ok |-> TRUE, err |-> NoErr,
              def |-> [intra |-> i.def,
                       inter |-> [names |-> i.def.names, signs |-> i.def.signs,
                                  predictors |-> pp, encodings |-> pe]]]
        ELSE [ok |-> FALSE, err |-> Corrupted, def |-> NoMainFrameDef]

----------------------------------------------------------------------------
(* LogVersion, FirmwareKind, MotorOutputRange *)

\* <LogVersion as FromStr>::from_str
LogVersion_from_str(s) ==
    IF s = <<"1">> \/ s = <<"v", "1">> THEN Some("V1")
    ELSE IF s = <<"2">> \/ s = <<"v", "2">> THEN Some("V2")
    ELSE None

\* <FirmwareKind as FromStr>::from_str: [ok, err, kind]
FirmwareKind_from_str(s) ==
    LET l == to_ascii_lowercase(s)
    IN  IF l = S_cleanflight THEN [ok |-> TRUE, err |-> NoErr, kind |-> "Cleanflight"]
        ELSE IF l = S_baseflight THEN [ok |-> TRUE, err |-> NoErr, kind |-> "Baseflight"]
        ELSE IF l = S_inav THEN [ok |-> TRUE, err |-> NoErr, kind |-> "INav"]
        ELSE [ok |-> FALSE, err |-> InvalidHeader(S_FirmwareType, s), kind |-> ""]

NoRange == <<0, 0>>

\* <MotorOutputRange as FromStr>::from_str: [ok, err, range]
MotorOutputRange_from_str(s) ==
    LET mm == split_once(s, ",")
        min == IF mm = None THEN None ELSE parse_u16(Unwrap(mm)[1])
        max == IF mm = None THEN None ELSE parse_u16(Unwrap(mm)[2])
    IN  IF mm = None \/ min = None \/ max = None
        THEN [ok |-> FALSE, err |-> Corrupted, range |-> NoRange]
        ELSE [ok |-> TRUE, err |-> NoErr, range |-> <<Unwrap(min), Unwrap(max)>>]

----------------------------------------------------------------------------
(* State: the builder of Headers::parse *)

\* The value of `state` before State::new has run
NoState == [version |-> "", main_frames |-> MainFrameDef_builder,
            slow_frames |-> SlowFrameDef_builder,
            firmware_revision |-> None, firmware_kind |-> None,
            board_info |-> None, craft_name |-> None,
            vbat_reference |-> None, min_throttle |-> None,
            motor_output_range |-> None]

\* State::new
State_new(version) == [NoState EXCEPT !.version = version]

\* How a call of State::update or State::finish ends
Returned(s) == [how |-> "Ok", err |-> NoErr, state |-> s]
Failed(e, s) == [how |-> "Err", err |-> e, state |-> s]
Panicked(s) == [how |-> "Panic", err |-> NoErr, state |-> s]

\* State::update with the map_err of lines 178-180 left out: the error of
\* MotorOutputRange::from_str is returned as it is
update_NoMapErr(self, header, value) ==
    LET h == to_ascii_lowercase(header)
        fk == FirmwareKind_from_str(value)
        u16 == parse_u16(value)
        mor == MotorOutputRange_from_str(value)
        fd == parse_frame_def_header(header)
    IN  IF h = S_firmware_revision
        THEN Returned([self EXCEPT !.firmware_revision = Some(value)])
        ELSE IF h = S_firmware_type
        THEN IF fk.ok THEN Returned([self EXCEPT !.firmware_kind = Some(fk.kind)])
             ELSE Failed(fk.err, self)
        ELSE IF h = S_board_information
        THEN Returned([self EXCEPT !.board_info = Some(value)])
        ELSE IF h = S_craft_name
        THEN Returned([self EXCEPT !.craft_name = Some(value)])
        ELSE IF h = S_vbatref
        THEN IF u16 # None THEN Returned([self EXCEPT !.vbat_reference = u16])
             ELSE Failed(InvalidHeader(header, value), self)
        ELSE IF h = S_minthrottle
        THEN IF u16 # None THEN Returned([self EXCEPT !.min_throttle = u16])
             ELSE Failed(InvalidHeader(header, value), self)
        ELSE IF h = S_motoroutput
        THEN IF mor.ok THEN Returned([self EXCEPT !.motor_output_range = Some(mor.range)])
             ELSE Failed(mor.err, self)
        ELSE IF is_frame_def_header(header)
        THEN IF ~fd.ok THEN Panicked(self)
             ELSE IF fd.kind \in {"Inter", "Intra"}
             THEN Returned([self EXCEPT !.main_frames =
                      MainFrameDefBuilder_update(self.main_frames, fd.kind, fd.property, value)])
             ELSE Returned([self EXCEPT !.slow_frames =
                      SlowFrameDefBuilder_update(self.slow_frames, fd.property, value)])
        ELSE Returned(self)

\* State::update with the last arm of the match returning an error: a header
\* that is neither metadata nor a frame definition is rejected
update_UnknownIsError(self, header, value) ==
    LET h == to_ascii_lowercase(header)
        fk == FirmwareKind_from_str(value)
        u16 == parse_u16(value)
        mor == MotorOutputRange_from_str(value)
        fd == parse_frame_def_header(header)
    IN  IF h = S_firmware_revision
        THEN Returned([self EXCEPT !.firmware_revision = Some(value)])
        ELSE IF h = S_firmware_type
        THEN IF fk.ok THEN Returned([self EXCEPT !.firmware_kind = Some(fk.kind)])
             ELSE Failed(fk.err, self)
        ELSE IF h = S_board_information
        THEN Returned([self EXCEPT !.board_info = Some(value)])
        ELSE IF h = S_craft_name
        THEN Returned([self EXCEPT !.craft_name = Some(value)])
        ELSE IF h = S_vbatref
        THEN IF u16 # None THEN Returned([self EXCEPT !.vbat_reference = u16])
             ELSE Failed(InvalidHeader(header, value), self)
        ELSE IF h = S_minthrottle
        THEN IF u16 # None THEN Returned([self EXCEPT !.min_throttle = u16])
             ELSE Failed(InvalidHeader(header, value), self)
        ELSE IF h = S_motoroutput
        THEN IF mor.ok THEN Returned([self EXCEPT !.motor_output_range = Some(mor.range)])
             ELSE Failed(InvalidHeader(header, value), self)
        ELSE IF is_frame_def_header(header)
        THEN IF ~fd.ok THEN Panicked(self)
             ELSE IF fd.kind \in {"Inter", "Intra"}
             THEN Returned([self EXCEPT !.main_frames =
                      MainFrameDefBuilder_update(self.main_frames, fd.kind, fd.property, value)])
             ELSE Returned([self EXCEPT !.slow_frames =
                      SlowFrameDefBuilder_update(self.slow_frames, fd.property, value)])
        ELSE Failed(UnknownHeader(header), self)

\* State::update with every metadata field set only while it is None: the
\* first occurrence of a header is kept
update_KeepFirst(self, header, value) ==
    LET h == to_ascii_lowercase(header)
        fk == FirmwareKind_from_str(value)
        u16 == parse_u16(value)
        mor == MotorOutputRange_from_str(value)
        fd == parse_frame_def_header(header)
        keep(old, new) == IF old = None THEN new ELSE old
    IN  IF h = S_firmware_revision
        THEN Returned([self EXCEPT !.firmware_revision = keep(self.firmware_revision, Some(value))])
        ELSE IF h = S_firmware_type
        THEN IF fk.ok THEN Returned([self EXCEPT !.firmware_kind = keep(self.firmware_kind, Some(fk.kind))])
             ELSE Failed(fk.err, self)
        ELSE IF h = S_board_information
        THEN Returned([self EXCEPT !.board_info = keep(self.board_info, Some(value))])
        ELSE IF h = S_craft_name
        THEN Returned([self EXCEPT !.craft_name = keep(self.craft_name, Some(value))])
        ELSE IF h = S_vbatref
        THEN IF u16 # None THEN Returned([self EXCEPT !.vbat_reference = keep(self.vbat_reference, u16)])
             ELSE Failed(InvalidHeader(header, value), self)
        ELSE IF h = S_minthrottle
        THEN IF u16 # None THEN Returned([self EXCEPT !.min_throttle = keep(self.min_throttle, u16)])
             ELSE Failed(InvalidHeader(header, value), self)
        ELSE IF h = S_motoroutput
        THEN IF mor.ok THEN Returned([self EXCEPT !.motor_output_range = keep(self.motor_output_range, Some(mor.range))])
             ELSE Failed(InvalidHeader(header, value), self)
        ELSE IF is_frame_def_header(header)
        THEN IF ~fd.ok THEN Panicked(self)
             ELSE IF fd.kind \in {"Inter", "Intra"}
             THEN Returned([self EXCEPT !.main_frames =
                      MainFrameDefBuilder_update(self.main_frames, fd.kind, fd.property, value)])
             ELSE Returned([self EXCEPT !.slow_frames =
                      SlowFrameDefBuilder_update(self.slow_frames, fd.property, value)])
        ELSE Returned(self)

\* State::update: [how, err, state]
update(self, header, value) ==
    LET h == to_ascii_lowercase(header)
        fk == FirmwareKind_from_str(value)
        u16 == parse_u16(value)
        mor == MotorOutputRange_from_str(value)
        fd == parse_frame_def_header(header)
    IN  IF h = S_firmware_revision
        THEN Returned([self EXCEPT !.firmware_revision = Some(value)])
        ELSE IF h = S_firmware_type
        THEN IF fk.ok THEN Returned([self EXCEPT !.firmware_kind = Some(fk.kind)])
             ELSE Failed(fk.err, self)
        ELSE IF h = S_board_information
        THEN Returned([self EXCEPT !.board_info = Some(value)])
        ELSE IF h = S_craft_name
        THEN Returned([self EXCEPT !.craft_name = Some(value)])
        ELSE IF h = S_vbatref
        THEN IF u16 # None THEN Returned([self EXCEPT !.vbat_reference = u16])
             ELSE Failed(InvalidHeader(header, value), self)
        ELSE IF h = S_minthrottle
        THEN IF u16 # None THEN Returned([self EXCEPT !.min_throttle = u16])
             ELSE Failed(InvalidHeader(header, value), self)
        ELSE IF h = S_motoroutput
        THEN IF mor.ok THEN Returned([self EXCEPT !.motor_output_range = Some(mor.range)])
             ELSE Failed(InvalidHeader(header, value), self)
        ELSE IF is_frame_def_header(header)
        THEN IF ~fd.ok THEN Panicked(self)
             ELSE IF fd.kind \in {"Inter", "Intra"}
             THEN Returned([self EXCEPT !.main_frames =
                      MainFrameDefBuilder_update(self.main_frames, fd.kind, fd.property, value)])
             ELSE Returned([self EXCEPT !.slow_frames =
                      SlowFrameDefBuilder_update(self.slow_frames, fd.property, value)])
        ELSE Returned(self)

NoHeaders == [version |-> "", main_frames |-> NoMainFrameDef, slow_frames |-> NoFrameDef,
              firmware_revision |-> <<>>, firmware_kind |-> "", board_info |-> <<>>,
              craft_name |-> <<>>, vbat_reference |-> 0, min_throttle |-> 0,
              motor_output_range |-> NoRange]

\* State::finish: [how, err, headers]
finish(self) ==
    LET main == MainFrameDefBuilder_parse(self.main_frames)
        slow == SlowFrameDefBuilder_parse(self.slow_frames)
    IN  IF ~main.ok THEN [how |-> "Err", err |-> main.err, headers |-> NoHeaders]
        ELSE IF ~slow.ok THEN [how |-> "Err", err |-> slow.err, headers |-> NoHeaders]
        ELSE IF \/ self.firmware_revision = None
                \/ self.firmware_kind = None
                \/ self.board_info = None
                \/ self.craft_name = None
                \/ self.vbat_reference = None
                \/ self.min_throttle = None
                \/ self.motor_output_range = None
        THEN [how |-> "Panic", err |-> NoErr, headers |-> NoHeaders]
        ELSE [how |-> "Ok", err |-> NoErr,
              headers |-> [version |-> self.version,
                           main_frames |-> main.def,
                           slow_frames |-> slow.def,
                           firmware_revision |-> Unwrap(self.firmware_revision),
                           firmware_kind |-> Unwrap(self.firmware_kind),
                           board_info |-> Unwrap(self.board_info),
                           craft_name |-> Unwrap(self.craft_name),
                           vbat_reference |-> Unwrap(self.vbat_reference),
                           min_throttle |-> Unwrap(self.min_throttle),
                           motor_output_range |-> Unwrap(self.motor_output_range)]]

----------------------------------------------------------------------------
(* Variable-byte and negative_14_bit codecs; here a byte is a number 0..255 *)

\* A u32 is its 32 bits, bit 0 the least significant
U32Zero == [k \in 0..31 |-> 0]

\* Bit k of the byte b
BitOf(b, k) == (b \div (2 ^ k)) % 2

\* `uvar | (payload << 7 * (i - 1))` in u32: the 7 payload bits of the i-th
\* group, those that would land above bit 31 being lost
or_group(acc, byte, i) ==
    [k \in 0..31 |->
        IF k >= 7 * (i - 1) /\ k <= 7 * (i - 1) + 6
        THEN BitOf(byte, k - 7 * (i - 1))
        ELSE acc[k]]

\* variable: [ok, err, value, used]. Each byte carries 7 payload bits, least
\* significant group first; bit 7 set means another group follows; at most
\* 5 groups, the value a u32
RECURSIVE variable_from(_, _, _)
variable_from(bytes, i, acc) ==
    IF i > 5 THEN [ok |-> FALSE, err |-> Corrupted, value |-> U32Zero, used |-> i - 1]
    ELSE IF i > Len(bytes)
    THEN [ok |-> FALSE, err |-> UnexpectedEof, value |-> U32Zero, used |-> i - 1]
    ELSE LET v == or_group(acc, bytes[i], i)
         IN  IF bytes[i] >= 128 THEN variable_from(bytes, i + 1, v)
             ELSE [ok |-> TRUE, err |-> NoErr, value |-> v, used |-> i]

variable(bytes) == variable_from(bytes, 1, U32Zero)

\* The number whose bits 0..k are those of w
RECURSIVE LowBits(_, _)
LowBits(w, k) == IF k < 0 THEN 0 ELSE w[k] * (2 ^ k) + LowBits(w, k - 1)

\* `x as u16` for a u32 x
as_u16(w) == LowBits(w, 15)

\* `x as i16` for a u16 x
as_i16(x) == IF x >= 32768 THEN x - 65536 ELSE x

\* `result & 0x2000`
and_0x2000(x) == ((x \div 8192) % 2) * 8192

\* `result | 0xC000` for a u16 result
or_0xC000(x) == (x % 16384) + 49152

\* negative_14_bit without the negation of line 12
negative_14_bit_NoNegate(bytes) ==
    LET v == variable(bytes)
        res == as_u16(v.value)
        extended == IF and_0x2000(res) > 0
                    THEN as_i16(or_0xC000(res))
                    ELSE res
    IN  IF ~v.ok THEN [ok |-> FALSE, err |-> v.err, value |-> 0]
        ELSE [ok |-> TRUE, err |-> NoErr, value |-> extended]

\* negative_14_bit: [ok, err, value]
negative_14_bit(bytes) ==
    LET v == variable(bytes)
        res == as_u16(v.value)
        extended == IF and_0x2000(res) > 0
                    THEN as_i16(or_0xC000(res))
                    ELSE res
    IN  IF ~v.ok THEN [ok |-> FALSE, err |-> v.err, value |-> 0]
        ELSE [ok |-> TRUE, err |-> NoErr, value |-> -extended]

----------------------------------------------------------------------------
(* sign_extend and zig_zag_decode (src/parser/decode/mod.rs). A u64 or i64 *)
(* is the function from its bit positions 0..63 to {0, 1}, a u32 or i32    *)
(* the function from 0..31; bit 63 (bit 31) is the sign of the signed type *)

\* `from << n` in u64, for 0 <= n < 64
shl_u64(x, n) == [k \in 0..63 |-> IF k >= n THEN x[k - n] ELSE 0]

\* `x >> n` in i64 (arithmetic), for 0 <= n < 64
shr_i64(x, n) == [k \in 0..63 |-> IF k + n <= 63 THEN x[k + n] ELSE x[63]]

\* sign_extend with a logical shift back: the field is zero-extended
sign_extend_Logical(from, bits) ==
    LET unused_bits == 64 - bits
        shifted == shl_u64(from, unused_bits)
    IN  [k \in 0..63 |-> IF k + unused_bits <= 63 THEN shifted[k + unused_bits] ELSE 0]

\* sign_extend that returns the word as it came
sign_extend_Identity(from, bits) == from

\* sign_extend, for 1 <= bits <= 64
sign_extend(from, bits) ==
    LET unused_bits == 64 - bits
    IN  shr_i64(shl_u64(from, unused_bits), unused_bits)

\* `value >> n` in u32 (logical)
shr_u32(value, n) == [k \in 0..31 |-> IF k + n <= 31 THEN value[k + n] ELSE 0]

\* `value as i32 & 1`
and_1(value) == [k \in 0..31 |-> IF k = 0 THEN value[0] ELSE 0]

\* `-x` in i32, two's complement: the bits above the lowest set bit flip
neg_i32(x) ==
    [k \in 0..31 |-> IF \A j \in 0..(k - 1) : x[j] = 0 THEN x[k] ELSE 1 - x[k]]

\* `a ^ b`
xor_i32(a, b) == [k \in 0..31 |-> (a[k] + b[k]) % 2]

\* zig_zag_decode without the sign term: the value halved
zig_zag_decode_Halve(value) == shr_u32(value, 1)

\* zig_zag_decode
zig_zag_decode(value) == xor_i32(shr_u32(value, 1), neg_i32(and_1(value)))

\* `n << 1` in i32
shl_i32_1(n) == [k \in 0..31 |-> IF k >= 1 THEN n[k - 1] ELSE 0]

\* `n >> 31` in i32 (arithmetic): the sign bit in every position
shr_i32_31(n) == [k \in 0..31 |-> n[31]]

\* The encoding zig_zag_decode undoes: (n << 1) ^ (n >> 31)
zig_zag_encode(n) == xor_i32(shl_i32_1(n), shr_i32_31(n))

\* The number an i32 stands for
I32_MIN == (-2147483647) - 1

i32_value(x) == LowBits(x, 30) + (IF x[31] = 1 THEN I32_MIN ELSE 0)

\* The u32 of a number 0 <= n < 2^31, and the i32 of a number
u32_of(n) == [k \in 0..31 |-> IF k <= 30 THEN (n \div (2 ^ k)) % 2 ELSE 0]

not_32(x) == [k \in 0..31 |-> 1 - x[k]]

i32_of(n) == IF n >= 0 THEN u32_of(n) ELSE not_32(u32_of(-(n + 1)))

----------------------------------------------------------------------------
(* tagged_16 and the reference decoder the fuzz target compares it with    *)
(* (fuzz/fuzz_targets/tagged_16_v2.rs); here a byte is a number 0..255     *)

\* The width in bits of the field a 2-bit tag selects
Tagged16Width(tag) ==
    CASE tag = 0 -> 0
      [] tag = 1 -> 4
      [] tag = 2 -> 8
      [] tag = 3 -> 16

\* The tag of field i (0..3): the high two bits of the tag byte are field 0
Tagged16Tag(tags, i) == (tags \div (4 ^ (3 - i))) % 4

\* Bit j (from 0) of the fields' bit stream, which starts after the tag
\* byte: bit 7 of each byte is first
StreamBit(bytes, j) == BitOf(bytes[2 + (j \div 8)], 7 - (j % 8))

\* read_bits: the n bits from bit `at` on, first bit most significant, as u64
read_bits(bytes, at, n) ==
    [k \in 0..63 |-> IF k < n THEN StreamBit(bytes, at + (n - 1 - k)) ELSE 0]

\* `x as i16` for an i64 x
i64_as_i16(x) == LowBits(x, 14) - x[15] * 32768

\* The bits in front of field i
Tagged16Offset(tags, i) ==
    LET w(j) == Tagged16Width(Tagged16Tag(tags, j))
    IN  CASE i = 0 -> 0
          [] i = 1 -> w(0)
          [] i = 2 -> w(0) + w(1)
          [] i = 3 -> w(0) + w(1) + w(2)
          [] i = 4 -> w(0) + w(1) + w(2) + w(3)

\* tagged_16 for either version: [ok, err, values, used], `used` the bits
\* read after the tag byte
tagged_16(bytes) ==
    LET tags == bytes[1]
        field(i) ==
            LET w == Tagged16Width(Tagged16Tag(tags, i))
            IN  IF w = 0 THEN 0
                ELSE i64_as_i16(sign_extend(read_bits(bytes, Tagged16Offset(tags, i), w), w))
    IN  IF Len(bytes) = 0 \/ Tagged16Offset(tags, 4) > 8 * (Len(bytes) - 1)
        THEN [ok |-> FALSE, err |-> UnexpectedEof, values |-> <<0, 0, 0, 0>>, used |-> 0]
        ELSE [ok |-> TRUE, err |-> NoErr,
              values |-> <<field(0), field(1), field(2), field(3)>>,
              used |-> Tagged16Offset(tags, 4)]

\* Nibble j (from 0) after the tag byte, high nibble of each byte first
StreamNibble(bytes, j) ==
    LET b == bytes[2 + (j \div 2)]
    IN  IF j % 2 = 0 THEN b \div 16 ELSE b % 16

\* The reference decoder (read_tagged_16_v2): None when the bytes run out,
\* else the four fields, each the number its nibbles spell, less 2^width
\* when its top bit is set
read_tagged_16_v2(bytes) ==
    LET tags == bytes[1]
        nibbles(i) == Tagged16Width(Tagged16Tag(tags, i)) \div 4
        first(i) == Tagged16Offset(tags, i) \div 4
        raw(i) ==
            CASE nibbles(i) = 0 -> 0
              [] nibbles(i) = 1 -> StreamNibble(bytes, first(i))
              [] nibbles(i) = 2 -> 16 * StreamNibble(bytes, first(i))
                                    + StreamNibble(bytes, first(i) + 1)
              [] nibbles(i) = 4 -> 4096 * StreamNibble(bytes, first(i))
                                    + 256 * StreamNibble(bytes, first(i) + 1)
                                    + 16 * StreamNibble(bytes, first(i) + 2)
                                    + StreamNibble(bytes, first(i) + 3)
        top(i) == 2 ^ (4 * nibbles(i) - 1)
        field(i) == IF nibbles(i) > 0 /\ raw(i) >= top(i) THEN raw(i) - 2 * top(i)
                    ELSE raw(i)
    IN  IF Len(bytes) = 0 \/ Tagged16Offset(tags, 4) > 8 * (Len(bytes) - 1)
        THEN None
        ELSE Some(<<field(0), field(1), field(2), field(3)>>)

----------------------------------------------------------------------------
(* Headers::parse *)

\* What Headers::parse returned, and in which state of the machine
ParseRunning == [kind |-> "Running", at |-> "", err |-> NoErr, headers |-> NoHeaders]
Ok(h) == [kind |-> "Ok", at |-> "Finalizing", err |-> NoErr, headers |-> h]
Error(e, at) == [kind |-> "Err", at |-> at, err |-> e, headers |-> NoHeaders]
Panic(at) == [kind |-> "Panic", at |-> at, err |-> NoErr, headers |-> NoHeaders]

\* ReadProduct without the check of line 44: any first header is accepted
ReadProduct_AnyName ==
    /\ pc = "ExpectProduct"
    /\ LET h == parse_header(input, pos)
       IN  /\ pos' = h.pos
           /\ IF ~h.ok THEN pc' = "Done" /\ result' = Error(h.err, pc)
              ELSE pc' = "ExpectDataVersion" /\ result' = result
    /\ UNCHANGED <<input, state, n14_bytes, n14_out, others>>

\* Lines 43-44: read the first header; its name must be "Product"
ReadProduct ==
    /\ pc = "ExpectProduct"
    /\ LET h == parse_header(input, pos)
       IN  /\ pos' = h.pos
           /\ IF ~h.ok THEN pc' = "Done" /\ result' = Error(h.err, pc)
              ELSE IF h.name # S_Product THEN pc' = "Done" /\ result' = Panic(pc)
              ELSE pc' = "ExpectDataVersion" /\ result' = result
    /\ UNCHANGED <<input, state, n14_bytes, n14_out, others>>

\* Lines 46-53: read the second header; its name must be "Data version" and
\* its value a LogVersion; then State::new
ReadDataVersion ==
    /\ pc = "ExpectDataVersion"
    /\ LET h == parse_header(input, pos)
           version == LogVersion_from_str(h.value)
       IN  /\ pos' = h.pos
           /\ IF ~h.ok THEN pc' = "Done" /\ result' = Error(h.err, pc) /\ state' = state
              ELSE IF h.name # S_DataVersion
              THEN pc' = "Done" /\ result' = Panic(pc) /\ state' = state
              ELSE IF version = None
              THEN /\ pc' = "Done"
                   /\ result' = Error(InvalidHeader(h.name, h.value), pc)
                   /\ state' = state
              ELSE /\ pc' = "Accumulating"
                   /\ result' = result
                   /\ state' = State_new(Unwrap(version))
    /\ UNCHANGED <<input, n14_bytes, n14_out, others>>

\* AccumulateHeader that skips a header update rejects and reads on
AccumulateHeader_SkipBad ==
    /\ pc = "Accumulating"
    /\ peek(input, pos) = Some("H")
    /\ LET h == parse_header(input, pos)
           u == update(state, h.name, h.value)
       IN  /\ pos' = h.pos
           /\ IF ~h.ok THEN pc' = "Done" /\ result' = Error(h.err, pc) /\ state' = state
              ELSE /\ state' = u.state
                   /\ IF u.how = "Panic" THEN pc' = "Done" /\ result' = Panic(pc)
                      ELSE pc' = pc /\ result' = result
    /\ UNCHANGED <<input, n14_bytes, n14_out, others>>

\* AccumulateHeader without the peek of line 56: a header is read whatever
\* the next byte is
AccumulateHeader_NoPeek ==
    /\ pc = "Accumulating"
    /\ peek(input, pos) # None
    /\ LET h == parse_header(input, pos)
           u == update(state, h.name, h.value)
       IN  /\ pos' = h.pos
           /\ IF ~h.ok THEN pc' = "Done" /\ result' = Error(h.err, pc) /\ state' = state
              ELSE /\ state' = u.state
                   /\ IF u.how = "Err" THEN pc' = "Done" /\ result' = Error(u.err, pc)
                      ELSE IF u.how = "Panic" THEN pc' = "Done" /\ result' = Panic(pc)
                      ELSE pc' = pc /\ result' = result
    /\ UNCHANGED <<input, n14_bytes, n14_out, others>>

\* Lines 56-57, 62-63: the next byte is 'H'; read one header and apply it
AccumulateHeader ==
    /\ pc = "Accumulating"
    /\ peek(input, pos) = Some("H")
    /\ LET h == parse_header(input, pos)
           u == update(state, h.name, h.value)
       IN  /\ pos' = h.pos
           /\ IF ~h.ok THEN pc' = "Done" /\ result' = Error(h.err, pc) /\ state' = state
              ELSE /\ state' = u.state
                   /\ IF u.how = "Err" THEN pc' = "Done" /\ result' = Error(u.err, pc)
                      ELSE IF u.how = "Panic" THEN pc' = "Done" /\ result' = Panic(pc)
                      ELSE pc' = pc /\ result' = result
    /\ UNCHANGED <<input, n14_bytes, n14_out, others>>

\* EndOfHeaders that reads the byte instead of peeking at it
EndOfHeaders_Consume ==
    /\ pc = "Accumulating"
    /\ peek(input, pos) # None
    /\ peek(input, pos) # Some("H")
    /\ pc' = "Finalizing"
    /\ pos' = pos + 1
    /\ UNCHANGED <<input, state, result, n14_bytes, n14_out, others>>

\* Line 58: the next byte is not 'H'; leave the loop without consuming it
EndOfHeaders ==
    /\ pc = "Accumulating"
    /\ peek(input, pos) # None
    /\ peek(input, pos) # Some("H")
    /\ pc' = "Finalizing"
    /\ UNCHANGED <<input, pos, state, result, n14_bytes, n14_out, others>>

\* AccumulateEof that takes the end of the input for the end of the headers
AccumulateEof_Break ==
    /\ pc = "Accumulating"
    /\ peek(input, pos) = None
    /\ pc' = "Finalizing"
    /\ UNCHANGED <<input, pos, state, result, n14_bytes, n14_out, others>>

\* Line 59: the input is exhausted
AccumulateEof ==
    /\ pc = "Accumulating"
    /\ peek(input, pos) = None
    /\ pc' = "Done"
    /\ result' = Error(UnexpectedEof, pc)
    /\ UNCHANGED <<input, pos, state, n14_bytes, n14_out, others>>

\* Line 66: state.finish()
Finalize ==
    /\ pc = "Finalizing"
    /\ LET f == finish(state)
       IN  result' = IF f.how = "Ok" THEN Ok(f.headers)
                     ELSE IF f.how = "Err" THEN Error(f.err, pc)
                     ELSE Panic(pc)
    /\ pc' = "Done"
    /\ UNCHANGED <<input, pos, state, n14_bytes, n14_out, others>>

\* Lines 55-66 as a function of the bytes, the cursor and the builder: the
\* loop and state.finish()
RECURSIVE accumulate(_, _, _)
accumulate(bytes, p, st) ==
    LET h == parse_header(bytes, p)
        u == update(st, h.name, h.value)
        f == finish(st)
    IN  IF peek(bytes, p) = None THEN Error(UnexpectedEof, "Accumulating")
        ELSE IF peek(bytes, p) # Some("H")
        THEN IF f.how = "Ok" THEN Ok(f.headers)
             ELSE IF f.how = "Err" THEN Error(f.err, "Finalizing")
             ELSE Panic("Finalizing")
        ELSE IF ~h.ok THEN Error(h.err, "Accumulating")
        ELSE IF u.how = "Err" THEN Error(u.err, "Accumulating")
        ELSE IF u.how = "Panic" THEN Panic("Accumulating")
        ELSE accumulate(bytes, h.pos, u.state)

\* Headers::parse as a function of the bytes
Headers_parse(bytes) ==
    LET product == parse_header(bytes, 0)
        data_version == parse_header(bytes, product.pos)
        version == LogVersion_from_str(data_version.value)
    IN  IF ~product.ok THEN Error(product.err, "ExpectProduct")
        ELSE IF product.name # S_Product THEN Panic("ExpectProduct")
        ELSE IF ~data_version.ok THEN Error(data_version.err, "ExpectDataVersion")
        ELSE IF data_version.name # S_DataVersion THEN Panic("ExpectDataVersion")
        ELSE IF version = None
        THEN Error(InvalidHeader(data_version.name, data_version.value), "ExpectDataVersion")
        ELSE accumulate(bytes, data_version.pos, State_new(Unwrap(version)))

----------------------------------------------------------------------------
(* The inputs Headers::parse is run on *)

Line(name, value) == <<"H">> \o name \o <<":">> \o value \o <<"\n">>
LineSp(name, value) == <<"H", " ">> \o name \o <<":">> \o value \o <<"\n">>

RECURSIVE Concat(_)
Concat(ss) == IF Len(ss) = 0 THEN <<>> ELSE Head(ss) \o Concat(Tail(ss))

\* The two leading headers, as a log writes them
GoodHead ==
    LineSp(S_Product, <<"B", "b", "o", "x">>) \o LineSp(S_DataVersion, <<"2">>)

\* The seven metadata headers, in the order State::finish unwraps them
MetaLines == <<
    LineSp(<<"F","i","r","m","w","a","r","e"," ","r","e","v","i","s","i","o","n">>, <<"r", "4">>),
    LineSp(S_FirmwareType, <<"C","l","e","a","n","f","l","i","g","h","t">>),
    LineSp(<<"B","o","a","r","d"," ","i","n","f","o","r","m","a","t","i","o","n">>, <<"b", "d">>),
    LineSp(<<"C","r","a","f","t"," ","n","a","m","e">>, <<"c", "n">>),
    LineSp(S_vbatref, <<"4", "2", "0">>),
    LineSp(S_minthrottle, <<"1", "0", "7", "0">>),
    LineSp(<<"m","o","t","o","r","O","u","t","p","u","t">>, <<"4", "8", ",", "2", "0", "4", "7">>) >>

\* The metadata headers without those whose index is in drop
MetaWithout(drop) ==
    Concat(SelectSeq([i \in 1..7 |-> IF i \in drop THEN <<>> ELSE MetaLines[i]],
                     LAMBDA l : TRUE))

Field(kind, prop) == S_FieldPrefix \o kind \o <<" ">> \o prop

\* Consistent frame definitions: two main fields, one slow field
FrameLines ==
    Line(Field(<<"I">>, S_name), <<"i", ",", "t">>) \o
    Line(Field(<<"I">>, S_signed), <<"0", ",", "0">>) \o
    Line(Field(<<"I">>, S_predictor), <<"0", ",", "0">>) \o
    Line(Field(<<"I">>, S_encoding), <<"1", ",", "1">>) \o
    Line(Field(<<"P">>, S_predictor), <<"6", ",", "2">>) \o
    Line(Field(<<"P">>, S_encoding), <<"9", ",", "0">>) \o
    Line(Field(<<"S">>, S_name), <<"f">>) \o
    Line(Field(<<"S">>, S_signed), <<"0">>) \o
    Line(Field(<<"S">>, S_predictor), <<"0">>) \o
    Line(Field(<<"S">>, S_encoding), <<"1">>)

\* Which metadata headers a header section leaves out
Drops == {{}} \cup {{i} : i \in 1..7} \cup {{6, 7}, 1..7}

Sections == {FrameLines \o MetaWithout(d) : d \in Drops}
               \cup {MetaWithout({}), MetaWithout({6, 7})}

\* Single lines put before or after a header section
ExtraLines == {
    Line(S_vbatref, <<"z">>),
    Line(S_vbatref, <<"7", "0", "0", "0", "0">>),
    Line(<<"V","B","A","T","R","E","F">>, <<"+", "7">>),
    Line(S_minthrottle, <<"-", "1">>),
    Line(S_minthrottle, <<"9">>),
    Line(S_motoroutput, <<"5">>),
    Line(S_motoroutput, <<"1", ",", "x">>),
    Line(S_motoroutput, <<"1", ",", "2">>),
    Line(S_firmware_type, <<"B","e","t","a">>),
    Line(<<"f","i","r","m","w","a","r","e"," ","T","Y","P","E">>, <<"x">>),
    Line(S_firmware_type, <<"I","N","A","V">>),
    Line(S_craft_name, <<>>),
    Line(Field(<<"X">>, S_name), <<"a">>),
    Line(Field(<<"I">>, <<"b","o","g","u","s">>), <<"a">>),
    Line(<<"F","i","e","l","d"," ","I">>, <<"a">>),
    Line(Field(<<"I">>, S_width), <<"4">>),
    Line(Field(<<"I">>, S_name), <<"a", ",", "b", ",", "c">>),
    Line(Field(<<"P">>, S_name), <<"i", ",", "t">>),
    Line(Field(<<"S">>, S_name), <<"f", ",", "g">>),
    Line(<<"l","o","o","p","t","i","m","e">>, <<"1", ":", "2">>),
    Line(<<"n", "0xC3", "0xA9">>, <<"v">>),
    <<"H", "n", "o", "c", "o", "l", "o", "n", "\n">>,
    <<"H", " ", "0xFF", ":", "0xFF", "\n">>,
    <<"H", "0xFF", "\n">> }

MaxExtra == 1

\* Sequences of at most n extra lines
RECURSIVE Extras(_)
Extras(n) ==
    IF n = 0 THEN {<<>>}
    ELSE LET shorter == Extras(n - 1)
         IN  shorter \cup {Append(e, x) : e \in shorter, x \in ExtraLines}

\* Every header section followed by the first byte of an I frame, and the
\* complete section with at most MaxExtra extra lines before and after it
FramedInputs ==
    {GoodHead \o s \o <<"I">> : s \in Sections}
        \cup UNION {
              {GoodHead \o Concat(SubSeq(e, 1, k)) \o FrameLines \o MetaWithout({})
                   \o Concat(SubSeq(e, k + 1, Len(e))) \o <<"I">> : k \in 0..Len(e)}
              : e \in Extras(MaxExtra)}

\* Inputs that go wrong in the first or the second header
HeadInputs ==
    LET rest == LineSp(S_DataVersion, <<"2">>) \o MetaWithout({}) \o <<"I">>
        v(x) == LineSp(S_Product, <<"B">>) \o x \o MetaWithout({}) \o <<"I">>
    IN  { <<>>, <<"E">>, <<"H">>, <<"I">> \o rest,
          <<"H", " ", "P", "r", "o", "d", "u", "c", "t">>,
          Line(<<"p","r","o","d","u","c","t">>, <<"B">>) \o rest,
          Line(S_DataVersion, <<"2">>) \o rest,
          <<"H", "P", "\n">> \o rest,
          <<"H", "0xFF", ":", "\n">> \o rest,
          Line(S_Product, <<>>) \o rest,
          Line(S_Product, <<"x", ":", "y">>) \o rest,
          v(<<>>), v(<<"I">>), v(<<"H", "D">>),
          v(Line(S_DataVersion, <<"1">>)),
          v(Line(S_DataVersion, <<"v", "2">>)),
          v(Line(S_DataVersion, <<"3">>)),
          v(Line(S_DataVersion, <<>>)),
          v(Line(S_DataVersion, <<" ", "2">>)),
          v(Line(<<"d","a","t","a"," ","v","e","r","s","i","o","n">>, <<"2">>)),
          v(Line(S_vbatref, <<"2">>)),
          v(<<"H", "D", "\n">>),
          v(<<"H", "0xA9", ":", "2", "\n">>) }

\* Ways a header section ends
Endings == { <<>>, <<"H">>, <<"H", "v", "b", "a", "t", ":", "1">>, <<"\n">>,
             <<"P">>, <<" ", "H">>, <<"h", ":", "\n">>, <<"0xFF">> }

EndedInputs ==
    {GoodHead \o s \o e : s \in Sections, e \in Endings}

\* Header lines with nothing after them: the complete section followed by at
\* most MaxExtra extra lines, and each extra line on its own
UnframedInputs ==
    {GoodHead \o FrameLines \o MetaWithout({}) \o Concat(e) : e \in Extras(MaxExtra)}
        \cup {GoodHead \o x : x \in ExtraLines}

Inputs == FramedInputs \cup HeadInputs \cup EndedInputs \cup UnframedInputs

----------------------------------------------------------------------------
(* The inputs negative_14_bit is run on *)

N14Bytes == {0, 1, 63, 64, 127, 128, 191, 255}

MaxN14Len == 3

N14Inputs ==
    UNION {[1..n -> N14Bytes] : n \in 0..MaxN14Len}
        \cup { <<255, 255, 255, 255, 127>>, <<255, 255, 255, 255, 255>>,
               <<128, 128, 128, 128, 128, 0>> }

NotRun == [ok |-> FALSE, err |-> Err("NotRun", <<>>, <<>>), value |-> 0]

\* A call of negative_14_bit on the whole of n14_bytes
Negative14Bit ==
    /\ n14_out = NotRun
    /\ n14_out' = negative_14_bit(n14_bytes)
    /\ UNCHANGED <<input, pos, pc, state, result, n14_bytes, others>>

----------------------------------------------------------------------------
(* A call of parse_header alone, as tests::invalid_utf8 makes it *)

PHBytes == {"H", " ", ":", "\n", "a", "0xFF", "0xC3", "0xA9"}

MaxLineLen == 5

PHInputs == UNION {[1..n -> PHBytes] : n \in 0..MaxLineLen}

PHNotRun == [ok |-> FALSE, err |-> Err("NotRun", <<>>, <<>>), name |-> <<>>,
             value |-> <<>>, pos |-> 0]

\* parse_header on a reader at the start of `input`
ParseHeader ==
    /\ ph_out = PHNotRun
    /\ pos = 0
    /\ ph_out' = parse_header(input, pos)
    /\ pos' = ph_out'.pos
    /\ UNCHANGED <<input, pc, state, result, n14_bytes, n14_out,
                   zz_in, zz_out, se_in, se_out, t16_in, t16_out>>

----------------------------------------------------------------------------
(* The inputs zig_zag_decode is run on: the u32 within MaxZigZag of 0, of  *)
(* 2^31 and of u32::MAX                                                     *)

MaxZigZag == 31

I32_MAX == 2147483647

ZZInputs ==
    {u32_of(n) : n \in 0..MaxZigZag}
        \cup {u32_of(I32_MAX - n) : n \in 0..MaxZigZag}
        \cup {not_32(u32_of(n)) : n \in 0..MaxZigZag}
        \cup {not_32(u32_of(I32_MAX - n)) : n \in 0..MaxZigZag}

\* A call of zig_zag_decode
ZigZagDecode ==
    /\ zz_out = None
    /\ zz_out' = Some(zig_zag_decode(zz_in))
    /\ UNCHANGED <<input, pos, pc, state, result, n14_bytes, n14_out,
                   ph_out, zz_in, se_in, se_out, t16_in, t16_out>>

----------------------------------------------------------------------------
(* The inputs sign_extend is run on: every width 1..64 with words that are *)
(* a small number, its complement, or one nibble repeated                  *)

U64_BITS == 64

MaxSignExtend == 15

u64_of(n) == [k \in 0..63 |-> IF k <= 30 THEN (n \div (2 ^ k)) % 2 ELSE 0]

not_64(x) == [k \in 0..63 |-> 1 - x[k]]

SEWords ==
    {u64_of(n) : n \in 0..MaxSignExtend}
        \cup {not_64(u64_of(n)) : n \in 0..MaxSignExtend}
        \cup {[k \in 0..63 |-> BitOf(n % 16, k % 4)] : n \in 0..MaxSignExtend}

SEInputs == [from : SEWords, bits : 1..U64_BITS]

\* A call of sign_extend
SignExtend ==
    /\ se_out = None
    /\ se_out' = Some(sign_extend(se_in.from, se_in.bits))
    /\ UNCHANGED <<input, pos, pc, state, result, n14_bytes, n14_out,
                   ph_out, zz_in, zz_out, se_in, t16_in, t16_out>>

----------------------------------------------------------------------------
(* The fuzz target tagged_16_v2: both decoders on the same bytes *)

T16Tags == {0, 27, 36, 64, 80, 84, 85, 128, 144, 192, 228, 255}

T16Bytes == {0, 7, 120, 127, 128, 143, 255}

MaxT16Payload == 2

T16Inputs ==
    {<<>>} \cup {<<t>> \o b : t \in T16Tags,
                              b \in UNION {[1..n -> T16Bytes] : n \in 0..MaxT16Payload}}

T16NotRun == [expected |-> None, got |-> [ok |-> FALSE, err |-> Err("NotRun", <<>>, <<>>),
                                          values |-> <<0, 0, 0, 0>>, used |-> 0],
              outcome |-> "not run"]

\* Lines 6-16: the assert_eq is reached when tagged_16 returned Ok
FuzzTagged16 ==
    /\ t16_out = T16NotRun
    /\ LET expected == read_tagged_16_v2(t16_in)
           got == tagged_16(t16_in)
       IN  t16_out' = [expected |-> expected, got |-> got,
                       outcome |-> IF ~got.ok THEN "skipped"
                                   ELSE IF expected = Some(got.values) THEN "passed"
                                   ELSE "assert_eq failed"]
    /\ UNCHANGED <<input, pos, pc, state, result, n14_bytes, n14_out,
                   ph_out, zz_in, zz_out, se_in, se_out, t16_in>>

\* No function outside Headers::parse and negative_14_bit is under call
OthersIdle ==
    /\ ph_out = PHNotRun
    /\ zz_in = u32_of(0)
    /\ zz_out = None
    /\ se_in = [from |-> u64_of(0), bits |-> 1]
    /\ se_out = None
    /\ t16_in = <<>>
    /\ t16_out = T16NotRun

----------------------------------------------------------------------------
(* Specifications *)

\* Headers::parse on each input
Init ==
    /\ input \in Inputs
    /\ pos = 0
    /\ pc = "ExpectProduct"
    /\ state = NoState
    /\ result = ParseRunning
    /\ n14_bytes = <<>>
    /\ n14_out = NotRun
    /\ OthersIdle

Next ==
    \/ ReadProduct
    \/ ReadDataVersion
    \/ AccumulateHeader
    \/ EndOfHeaders
    \/ AccumulateEof
    \/ Finalize

Spec == Init /\ [][Next]_vars

\* negative_14_bit on each input
InitN14 ==
    /\ input = <<>>
    /\ pos = 0
    /\ pc = "Done"
    /\ state = NoState
    /\ result = ParseRunning
    /\ n14_bytes \in N14Inputs
    /\ n14_out = NotRun
    /\ OthersIdle

NextN14 == Negative14Bit

SpecN14 == InitN14 /\ [][NextN14]_vars

\* The variables of Headers::parse and negative_14_bit, at rest
ParseIdle ==
    /\ input = <<>>
    /\ pos = 0
    /\ pc = "Done"
    /\ state = NoState
    /\ result = ParseRunning
    /\ n14_bytes = <<>>
    /\ n14_out = NotRun

\* parse_header on each input
InitPH ==
    /\ input \in PHInputs
    /\ pos = 0
    /\ pc = "Done"
    /\ state = NoState
    /\ result = ParseRunning
    /\ n14_bytes = <<>>
    /\ n14_out = NotRun
    /\ OthersIdle

NextPH == ParseHeader

SpecPH == InitPH /\ [][NextPH]_vars

\* zig_zag_decode on each input
InitZZ ==
    /\ ParseIdle
    /\ ph_out = PHNotRun
    /\ zz_in \in ZZInputs
    /\ zz_out = None
    /\ se_in = [from |-> u64_of(0), bits |-> 1]
    /\ se_out = None
    /\ t16_in = <<>>
    /\ t16_out = T16NotRun

NextZZ == ZigZagDecode

SpecZZ == InitZZ /\ [][NextZZ]_vars

\* sign_extend on each input
InitSE ==
    /\ ParseIdle
    /\ ph_out = PHNotRun
    /\ zz_in = u32_of(0)
    /\ zz_out = None
    /\ se_in \in SEInputs
    /\ se_out = None
    /\ t16_in = <<>>
    /\ t16_out = T16NotRun

NextSE == SignExtend

SpecSE == InitSE /\ [][NextSE]_vars

\* The fuzz target on each input
InitT16 ==
    /\ ParseIdle
    /\ ph_out = PHNotRun
    /\ zz_in = u32_of(0)
    /\ zz_out = None
    /\ se_in = [from |-> u64_of(0), bits |-> 1]
    /\ se_out = None
    /\ t16_in \in T16Inputs
    /\ t16_out = T16NotRun

NextT16 == FuzzTagged16

SpecT16 == InitT16 /\ [][NextT16]_vars

----------------------------------------------------------------------------
(* Properties of Headers::parse *)

ErrorKinds == {"UnexpectedEof", "Corrupted", "HeaderInvalidUtf8", "HeaderMissingColon",
               "InvalidHeader", "UnknownHeader", "MissingHeader"}

\* The first and the second header of the input, as parse_header reads them
FirstHeader == parse_header(input, 0)
SecondHeader == parse_header(input, FirstHeader.pos)

\* Where the parse is, or where it returned
Where == IF pc = "Done" THEN result.at ELSE pc

\* The required metadata the builder s lacks
MissingRequired(s) ==
    {n \in {"firmware_revision", "firmware_kind", "board_info", "craft_name",
            "vbat_reference"} : s[n] = None}

\* The frame definitions of the builder s are consistent
FramesConsistent(s) ==
    /\ MainFrameDefBuilder_parse(s.main_frames).ok
    /\ SlowFrameDefBuilder_parse(s.slow_frames).ok

\* C1: Headers::parse returns Ok or an error of the closed set of kinds; it
\* never ends in a panic (a failed assertion or an unwrap of None).
C1_NeverPanics ==
    /\ result.kind # "Panic"
    /\ result.kind = "Err" => result.err.kind \in ErrorKinds
    /\ pc = "Done" => result.kind \in {"Ok", "Err"}

\* C2: when the header section has ended and a required metadata header was
\* never applied, the parse returns the error MissingHeader and no Headers.
C2_MissingHeaderReported ==
    (pc = "Done" /\ result.at = "Finalizing" /\ FramesConsistent(state)
        /\ MissingRequired(state) # {})
    => (result.kind = "Err" /\ result.err.kind = "MissingHeader"
        /\ result.headers = NoHeaders)

\* C3: the parse passes through Expect-Product, Expect-Data-Version,
\* Accumulating, Finalizing in that order.  Past Expect-Product the first
\* header was read with the name "Product", and accepting it changed nothing
\* but the cursor (its value is ignored); the builder is untouched until the
\* Data version header is accepted too, and only then can Accumulating and
\* Finalizing be entered.
C3_PastProduct ==
    Where \in {"ExpectDataVersion", "Accumulating", "Finalizing"}
    => FirstHeader.ok /\ FirstHeader.name = S_Product

C3_ProductValueIgnored ==
    pc = "ExpectDataVersion"
    => state = NoState /\ result = ParseRunning /\ pos = FirstHeader.pos

C3_PastDataVersion ==
    Where \in {"Accumulating", "Finalizing"}
    => /\ SecondHeader.ok
       /\ SecondHeader.name = S_DataVersion
       /\ LogVersion_from_str(SecondHeader.value) # None

C3_NothingAppliedBefore ==
    Where \in {"ExpectProduct", "ExpectDataVersion"} => state = NoState

C3_Order ==
    <<pc, pc'>> \in {<<"ExpectProduct", "ExpectDataVersion">>,
                     <<"ExpectDataVersion", "Accumulating">>,
                     <<"Accumulating", "Accumulating">>,
                     <<"Accumulating", "Finalizing">>,
                     <<"ExpectProduct", "Done">>,
                     <<"ExpectDataVersion", "Done">>,
                     <<"Accumulating", "Done">>,
                     <<"Finalizing", "Done">>}

C3_StateOrder ==
    /\ [](C3_PastProduct /\ C3_ProductValueIgnored /\ C3_PastDataVersion
            /\ C3_NothingAppliedBefore)
    /\ [][C3_Order]_vars

\* C3 witness: a parse that went through all four states and emitted Headers
C3_Witness == pc = "Done" /\ result.kind = "Ok" /\ FirstHeader.value # <<>>

\* C4: a second header that is not named "Data version", or whose value is
\* no recognized version, makes the parse fail with an error value, nothing
\* applied and no Headers; an accepted version is the version of the Headers.
C4_DataVersionChecked ==
    /\ (pc = "Done" /\ result.at = "ExpectDataVersion" /\ SecondHeader.ok
          /\ (SecondHeader.name # S_DataVersion
                \/ LogVersion_from_str(SecondHeader.value) = None))
       => (result.kind = "Err" /\ state = NoState /\ result.headers = NoHeaders)
    /\ result.kind = "Ok"
       => result.headers.version = Unwrap(LogVersion_from_str(SecondHeader.value))

\* C8: a header section with consistent frame definitions and all required
\* metadata is finalized into Headers, with or without minthrottle and
\* motoroutput.
C8_OptionalMetadata ==
    (pc = "Done" /\ result.at = "Finalizing" /\ FramesConsistent(state)
        /\ state.main_frames["Intra"]["name"] # None
        /\ state.slow_frames["name"] # None
        /\ MissingRequired(state) = {})
    => result.kind = "Ok"

\* C10: a `Field ...` header with an unrecognized frame kind or property makes
\* the parse fail with the error UnknownHeader naming that header.
C10_UnknownHeader ==
    [][(/\ pc = "Accumulating"
        /\ peek(input, pos) = Some("H")
        /\ parse_header(input, pos).ok
        /\ is_frame_def_header(parse_header(input, pos).name)
        /\ ~parse_frame_def_header(parse_header(input, pos).name).ok)
       => (/\ pc' = "Done"
           /\ result'.kind = "Err"
           /\ result'.err = UnknownHeader(parse_header(input, pos).name))]_vars

\* The input is a sequence of complete header lines and nothing else
RECURSIVE LinesOnlyFrom(_, _)
LinesOnlyFrom(bytes, p) ==
    \/ p = Len(bytes)
    \/ /\ parse_header(bytes, p).ok
       /\ LinesOnlyFrom(bytes, parse_header(bytes, p).pos)

LinesOnly(bytes) == LinesOnlyFrom(bytes, 0)

\* C5: in Accumulating each step peeks the next byte: on 'H' exactly one
\* header line is read and applied and the state stays Accumulating; on any
\* other byte the parser moves to Finalizing, consuming nothing; at the end
\* of the input the parse fails with UnexpectedEof.
C5_Step ==
    pc = "Accumulating" =>
        IF peek(input, pos) = None
        THEN pc' = "Done" /\ result' = Error(UnexpectedEof, "Accumulating") /\ pos' = pos
        ELSE IF peek(input, pos) # Some("H")
        THEN pc' = "Finalizing" /\ pos' = pos /\ state' = state /\ result' = result
        ELSE /\ pc' \in {"Accumulating", "Done"}
             /\ pc' = "Accumulating" =>
                  /\ pos' = IndexFrom(input, "\n", pos + 1)
                  /\ state' = update(state, parse_header(input, pos).name,
                                     parse_header(input, pos).value).state
                  /\ result' = result

\* The parse ended at a header line that was read and then not accepted: a
\* value that does not parse, or a name that fails an assertion or an unwrap
LineRejected ==
    \/ result.kind = "Err" /\ result.err.kind = "InvalidHeader"
    \/ result.kind = "Panic" /\ result.at # "Finalizing"

\* C5: an input of header lines alone, with no byte after them, never reaches
\* Finalizing and emits no Headers, whatever headers it holds: with every
\* line read and applied, the parse fails with UnexpectedEof.
C5_HeadersAlone ==
    (pc = "Done" /\ LinesOnly(input))
    => /\ result.kind # "Ok"
       /\ result.at # "Finalizing"
       /\ ~LineRejected => result.kind = "Err" /\ result.err = UnexpectedEof

C6_Step ==
    /\ pc # "Done"
    /\ ((pc \in {"ExpectProduct", "ExpectDataVersion"}
            \/ (pc = "Accumulating" /\ peek(input, pos) = Some("H")))
        /\ ~parse_header(input, pos).ok)
       => /\ pc' = "Done"
          /\ result' = Error(parse_header(input, pos).err, pc)
          /\ state' = state
    /\ (/\ pc = "Accumulating"
        /\ peek(input, pos) = Some("H")
        /\ parse_header(input, pos).ok
        /\ update(state, parse_header(input, pos).name,
                  parse_header(input, pos).value).how = "Err")
       => /\ pc' = "Done"
          /\ result' = Error(update(state, parse_header(input, pos).name,
                                    parse_header(input, pos).value).err, pc)
          /\ state' = state

C6_ErrorsFinal ==
    /\ [][C6_Step]_vars
    /\ [](result.kind = "Err" => pc = "Done")

\* C6 witness: a header was rejected while complete header lines were still
\* unread behind it
C6_Witness ==
    /\ pc = "Done"
    /\ result.kind = "Err"
    /\ result.at = "Accumulating"
    /\ result.err.kind = "InvalidHeader"
    /\ peek(input, pos) = Some("H")
    /\ parse_header(input, pos).ok

\* A recognized metadata header with a value that does not parse
Unparseable(name, value) ==
    LET n == to_ascii_lowercase(name)
        pair == split_once(value, ",")
    IN  \/ n \in {S_vbatref, S_minthrottle} /\ parse_u16(value) = None
        \/ /\ n = S_motoroutput
           /\ \/ pair = None
              \/ parse_u16(Unwrap(pair)[1]) = None
              \/ parse_u16(Unwrap(pair)[2]) = None
        \/ /\ n = S_firmware_type
           /\ to_ascii_lowercase(value) \notin {S_baseflight, S_cleanflight, S_inav}

\* C9: applying a recognized metadata header whose value does not parse
\* returns InvalidHeader with the header's name and that value, and leaves
\* the builder as it was.
C9_Step ==
    (/\ pc = "Accumulating"
     /\ peek(input, pos) = Some("H")
     /\ parse_header(input, pos).ok
     /\ Unparseable(parse_header(input, pos).name, parse_header(input, pos).value))
    => /\ pc' = "Done"
       /\ result'.kind = "Err"
       /\ result'.err.kind = "InvalidHeader"
       /\ to_ascii_lowercase(result'.err.header)
            = to_ascii_lowercase(parse_header(input, pos).name)
       /\ result'.err.value = parse_header(input, pos).value
       /\ state' = state

C9_InvalidHeader == [][C9_Step]_vars

\* C9 witness: a motoroutput header that is no pair was rejected after every
\* metadata header had been applied
C9_Witness ==
    /\ pc = "Done"
    /\ result.kind = "Err"
    /\ result.err.kind = "InvalidHeader"
    /\ to_ascii_lowercase(result.err.header) = S_motoroutput
    /\ state.motor_output_range # None
    /\ state.vbat_reference # None

----------------------------------------------------------------------------
(* Properties of State::update and of the header section *)

\* The lowercased names State::update matches
MetadataNames == {S_firmware_revision, S_firmware_type, S_board_information,
                  S_craft_name, S_vbatref, S_minthrottle, S_motoroutput}

\* The header is neither recognized metadata nor a Field header
Unrecognized(header) ==
    /\ to_ascii_lowercase(header) \notin MetadataNames
    /\ ~is_frame_def_header(header)

\* The header line at the cursor, as parse_header would read it
NextHeader == parse_header(input, pos)

\* The parse is in Accumulating and the next line is a header it can read
ReadsHeader ==
    /\ pc = "Accumulating"
    /\ peek(input, pos) = Some("H")
    /\ NextHeader.ok

\* The bytes from p on, less each unrecognized line, up to the first line
\* that is not a header parse_header can read
RECURSIVE WithoutUnrecognizedFrom(_, _)
WithoutUnrecognizedFrom(bytes, p) ==
    LET h == parse_header(bytes, p)
    IN  IF peek(bytes, p) # Some("H") \/ ~h.ok THEN SubSeq(bytes, p + 1, Len(bytes))
        ELSE (IF Unrecognized(h.name) THEN <<>> ELSE SubSeq(bytes, p + 1, h.pos))
                 \o WithoutUnrecognizedFrom(bytes, h.pos)

\* The input with the unrecognized lines after its first two headers removed
WithoutUnrecognized(bytes) ==
    LET p == parse_header(bytes, parse_header(bytes, 0).pos).pos
    IN  IF parse_header(bytes, 0).ok /\ parse_header(bytes, parse_header(bytes, 0).pos).ok
        THEN SubSeq(bytes, 1, p) \o WithoutUnrecognizedFrom(bytes, p)
        ELSE bytes

\* C11: a header whose name is neither recognized metadata nor a Field header
\* is not an error: State::update returns Ok and leaves the builder as it
\* was; and the result of Headers::parse on an input is its result on the
\* input with every such line of the Accumulating section removed.
C11_UnrecognizedIgnored ==
    /\ (ReadsHeader /\ Unrecognized(NextHeader.name))
       => update(state, NextHeader.name, NextHeader.value) = Returned(state)
    /\ pc = "Done"
       => /\ result = Headers_parse(input)
          /\ result = Headers_parse(WithoutUnrecognized(input))

\* C11 witness: the parse returned Headers on an input that holds an
\* unrecognized line among its headers
C11_Witness ==
    /\ pc = "Done"
    /\ result.kind = "Ok"
    /\ WithoutUnrecognized(input) # input

\* The builder field a metadata header sets
MetadataField(name) ==
    CASE name = S_firmware_revision -> "firmware_revision"
      [] name = S_firmware_type -> "firmware_kind"
      [] name = S_board_information -> "board_info"
      [] name = S_craft_name -> "craft_name"
      [] name = S_vbatref -> "vbat_reference"
      [] name = S_minthrottle -> "min_throttle"
      [] name = S_motoroutput -> "motor_output_range"

\* The values of the header lines from p on whose lowercased name is `name`,
\* in the order of the lines, up to the end of the header section
RECURSIVE ValuesFrom(_, _, _)
ValuesFrom(bytes, p, name) ==
    LET h == parse_header(bytes, p)
    IN  IF peek(bytes, p) # Some("H") \/ ~h.ok THEN <<>>
        ELSE (IF to_ascii_lowercase(h.name) = name THEN <<h.value>> ELSE <<>>)
                 \o ValuesFrom(bytes, h.pos, name)

\* The values the input gives the metadata header `name` after its first
\* two headers
Occurrences(name) == ValuesFrom(input, SecondHeader.pos, name)

Last(s) == s[Len(s)]

\* C19: a recognized metadata header that occurs again overwrites: applying
\* it ends as it would on a fresh builder and sets the field to the same
\* value; the emitted Headers holds, for each metadata field, the value of
\* the last occurrence of its header, and a duplicate is never an error.
C19_LastWins ==
    /\ (ReadsHeader /\ to_ascii_lowercase(NextHeader.name) \in MetadataNames)
       => LET field == MetadataField(to_ascii_lowercase(NextHeader.name))
              u == update(state, NextHeader.name, NextHeader.value)
              fresh == update(State_new(state.version), NextHeader.name, NextHeader.value)
          IN  /\ u.how = fresh.how
              /\ u.err = fresh.err
              /\ u.how = "Ok" => u.state[field] = fresh.state[field]
              /\ \A f \in DOMAIN state : f # field => u.state[f] = state[f]
    /\ result.kind = "Ok"
       => /\ result.headers.firmware_revision = Last(Occurrences(S_firmware_revision))
          /\ result.headers.firmware_kind =
                 FirmwareKind_from_str(Last(Occurrences(S_firmware_type))).kind
          /\ result.headers.board_info = Last(Occurrences(S_board_information))
          /\ result.headers.craft_name = Last(Occurrences(S_craft_name))
          /\ result.headers.vbat_reference = Unwrap(parse_u16(Last(Occurrences(S_vbatref))))
          /\ result.headers.min_throttle = Unwrap(parse_u16(Last(Occurrences(S_minthrottle))))
          /\ result.headers.motor_output_range =
                 MotorOutputRange_from_str(Last(Occurrences(S_motoroutput))).range

\* C19 witness: the parse returned Headers on an input that gives a metadata
\* header twice, with two values
C19_Witness ==
    /\ result.kind = "Ok"
    /\ \E name \in MetadataNames :
          /\ Len(Occurrences(name)) = 2
          /\ Occurrences(name)[1] # Occurrences(name)[2]

\* The positions of the input where a line starts and that lie before p
LineStartsBefore(p) == {q \in 0..(p - 1) : q = 0 \/ input[q] = "\n"}

\* C14: the header section ends at the first byte at the top of a line that
\* is not 'H', and that byte is not consumed: when Headers::parse reaches
\* Finalizing, and when it returns Headers, the cursor is at that byte, and
\* the bytes before it are complete header lines, each read.
C14_CursorAtEnd ==
    (pc = "Finalizing" \/ (pc = "Done" /\ result.at = "Finalizing"))
    => /\ peek(input, pos) # None
       /\ peek(input, pos) # Some("H")
       /\ pos > 0 /\ input[pos] = "\n"
       /\ \A q \in LineStartsBefore(pos) : input[q + 1] = "H"
       /\ LinesOnly(SubSeq(input, 1, pos))

\* C14 witness: Headers::parse returned Headers
C14_Witness ==
    /\ pc = "Done"
    /\ result.kind = "Ok"
    /\ pos < Len(input)

\* C20: within Headers::parse the Corrupted of parse_header's check of the
\* leading byte comes from the first two headers only: no parse ends with
\* Corrupted in Accumulating, a Corrupted of the first two headers is that of
\* a line that does not start with 'H', and in Accumulating a byte that is
\* not 'H' leaves no header to read but ends the section.
C20_CorruptedOnlyAtHead ==
    /\ (result.kind = "Err" /\ result.err = Corrupted)
       => /\ result.at \in {"ExpectProduct", "ExpectDataVersion", "Finalizing"}
          /\ result.at = "ExpectProduct" => peek(input, 0) \notin {None, Some("H")}
          /\ result.at = "ExpectDataVersion"
             => peek(input, FirstHeader.pos) \notin {None, Some("H")}
    /\ (pc = "Accumulating" /\ NextHeader.err = Corrupted)
       => /\ ~ENABLED AccumulateHeader
          /\ ENABLED EndOfHeaders

\* C20 witness: the second header starts with a byte that is not 'H' and the
\* parse failed with Corrupted
C20_Witness ==
    /\ pc = "Done"
    /\ result = Error(Corrupted, "ExpectDataVersion")
    /\ FirstHeader.ok

----------------------------------------------------------------------------
(* Properties of parse_header *)

\* The call of parse_header has returned
PHCalled == ph_out # PHNotRun

\* The input starts with 'H' and holds a '\n' after it: a complete line
CompleteLine ==
    /\ Len(input) > 0
    /\ input[1] = "H"
    /\ \E i \in 2..Len(input) : input[i] = "\n"

\* The position of the first '\n' of a complete line
LineEnd == CHOOSE i \in 2..Len(input) :
               input[i] = "\n" /\ \A j \in 2..(i - 1) : input[j] # "\n"

\* The bytes of the line between the 'H' and the '\n'
LineBody == SubSeq(input, 2, LineEnd - 1)

HasColon(s) == \E i \in 1..Len(s) : s[i] = ":"

\* C12: parse_header classifies a malformed line in a fixed order: a complete
\* line 'H'...'\n' holding invalid UTF-8 gives HeaderInvalidUtf8, with or
\* without a ':'; a complete line of valid UTF-8 without ':' gives
\* HeaderMissingColon; a first byte other than 'H' gives Corrupted; an
\* exhausted input, or an 'H' with no '\n' after it, gives UnexpectedEof.
C12_ErrorPrecedence ==
    PHCalled =>
        /\ (CompleteLine /\ ~from_utf8_ok(LineBody))
           => ~ph_out.ok /\ ph_out.err = HeaderInvalidUtf8
        /\ (CompleteLine /\ from_utf8_ok(LineBody) /\ ~HasColon(LineBody))
           => ~ph_out.ok /\ ph_out.err = HeaderMissingColon
        /\ (Len(input) > 0 /\ input[1] # "H")
           => ~ph_out.ok /\ ph_out.err = Corrupted
        /\ (Len(input) = 0 \/ (input[1] = "H" /\ ~CompleteLine))
           => ~ph_out.ok /\ ph_out.err = UnexpectedEof
        /\ ~ph_out.ok
           => ph_out.err \in {HeaderInvalidUtf8, HeaderMissingColon, Corrupted, UnexpectedEof}

\* C12 witness: a complete line that holds invalid UTF-8 and a ':' was
\* rejected as invalid UTF-8
C12_Witness ==
    /\ PHCalled
    /\ CompleteLine
    /\ HasColon(LineBody)
    /\ ~from_utf8_ok(LineBody)
    /\ ph_out.err = HeaderInvalidUtf8

\* A complete line of valid UTF-8 with a ':'
WellFormedLine == CompleteLine /\ from_utf8_ok(LineBody) /\ HasColon(LineBody)

\* The line body after at most one leading space
BodyText == IF Len(LineBody) > 0 /\ LineBody[1] = " " THEN Tail(LineBody) ELSE LineBody

\* The position of the first ':' of the text
FirstColon == CHOOSE i \in 1..Len(BodyText) :
                  BodyText[i] = ":" /\ \A j \in 1..(i - 1) : BodyText[j] # ":"

\* C13: on a well-formed header line parse_header returns the name, the text
\* between the 'H' (less at most one space) and the first ':', which holds
\* no ':', and the value, all that follows the first ':' up to the '\n',
\* further ':' and leading spaces included; it consumes the bytes of that
\* line and its '\n', no more.
C13_NameValue ==
    (PHCalled /\ WellFormedLine) =>
        /\ ph_out.ok
        /\ ph_out.name = SubSeq(BodyText, 1, FirstColon - 1)
        /\ ~HasColon(ph_out.name)
        /\ ph_out.value = SubSeq(BodyText, FirstColon + 1, Len(BodyText))
        /\ ph_out.pos = LineEnd
        /\ pos = LineEnd

\* C13 witness: a line with two spaces after the 'H' was read: the name is
\* the second space
C13_Witness ==
    /\ PHCalled
    /\ WellFormedLine
    /\ ph_out.ok
    /\ ph_out.name = <<" ">>

----------------------------------------------------------------------------
(* Properties of negative_14_bit *)

\* C7: negative_14_bit ignores every bit above bit 13 of the decoded value:
\* inputs whose decoded values agree on bits 0..13 give the same result, and
\* the result lies in [-8191, 8192].
C7_IgnoresHighBits ==
    n14_out.ok =>
        /\ n14_out.value \in -8191..8192
        /\ \A b \in N14Inputs :
              (variable(b).ok
                /\ LowBits(variable(b).value, 13) = LowBits(variable(n14_bytes).value, 13))
              => negative_14_bit(b).value = n14_out.value

\* C15: where negative_14_bit succeeds, its result is <= 0 when bit 13 of the
\* decoded value is clear and >= 0 when bit 13 is set.
C15_SignByBit13 ==
    n14_out.ok =>
        /\ variable(n14_bytes).value[13] = 0 => n14_out.value <= 0
        /\ variable(n14_bytes).value[13] = 1 => n14_out.value >= 0

\* C15 witness: a decoded value with bit 13 set gave a positive result
C15_Witness ==
    /\ n14_out.ok
    /\ variable(n14_bytes).value[13] = 1
    /\ n14_out.value > 0

----------------------------------------------------------------------------
(* Properties of zig_zag_decode and sign_extend *)

\* The i32 whose encodings are the inputs of zig_zag_decode
ZZInts ==
    UNION {{n, (-n) - 1, I32_MAX - n, I32_MIN + n,
            1073741824 + n, 1073741823 - n, (-1073741824) + n, (-1073741825) - n}
           : n \in 0..MaxZigZag}

\* value / 2, rounded down
HalfOf(value) == LowBits([k \in 0..30 |-> value[k + 1]], 30)

\* C16: zig_zag_decode undoes encode(n) = (n << 1) ^ (n >> 31) on all of i32:
\* the input is the encoding of the i32 returned, and of no other; an even u
\* gives u / 2 and an odd u gives -(u + 1) / 2, the negation being that of
\* 0 or 1 and so without overflow; 0, 1, 2, 3, u32::MAX and u32::MAX - 1 give
\* 0, -1, 1, -2, i32::MIN and i32::MAX.
C16_ZigZagInverse ==
    zz_out # None =>
        LET r == i32_value(Unwrap(zz_out))
        IN  /\ \A i \in ZZInts : zig_zag_encode(i32_of(i)) = zz_in <=> i = r
            /\ zig_zag_encode(Unwrap(zz_out)) = zz_in
            /\ zz_in[0] = 0 => r = HalfOf(zz_in)
            /\ zz_in[0] = 1 => r = (-HalfOf(zz_in)) - 1
            /\ i32_value(and_1(zz_in)) \in {0, 1}
            /\ zz_in = u32_of(0) => r = 0
            /\ zz_in = u32_of(1) => r = -1
            /\ zz_in = u32_of(2) => r = 1
            /\ zz_in = u32_of(3) => r = -2
            /\ zz_in = not_32(u32_of(0)) => r = I32_MIN
            /\ zz_in = not_32(u32_of(1)) => r = I32_MAX

\* C16 witness: u32::MAX was decoded to i32::MIN
C16_Witness ==
    /\ zz_out # None
    /\ zz_in = not_32(u32_of(0))
    /\ i32_value(Unwrap(zz_out)) = I32_MIN

\* The number an i64 stands for, when it lies in the range of i32
i64_value(x) == LowBits(x, 30) + (IF x[63] = 1 THEN I32_MIN ELSE 0)

\* The word x with every bit from w up set to b
WithHighBits(x, w, b) == [k \in 0..63 |-> IF k < w THEN x[k] ELSE b]

\* C17: for every width w in 1..64 and every 64-bit x, sign_extend(x, w) lies
\* in [-2^(w-1), 2^(w-1) - 1], that is, its bits from w-1 up are all equal,
\* and has the low w bits of x; the bits of x from w up do not matter; at
\* width 2 the low bits 00, 01, 10, 11 give 0, 1, -2, -1.
C17_SignExtendRange ==
    se_out # None =>
        LET r == Unwrap(se_out)
            w == se_in.bits
            x == se_in.from
        IN  /\ \A k \in 0..(w - 1) : r[k] = x[k]
            /\ \A k \in (w - 1)..63 : r[k] = r[w - 1]
            /\ w <= 31 => /\ i64_value(r) >= -(2 ^ (w - 1))
                          /\ i64_value(r) <= 2 ^ (w - 1) - 1
            /\ r = sign_extend(WithHighBits(x, w, 0), w)
            /\ r = sign_extend(WithHighBits(x, w, 1), w)
            /\ w = 2 => i64_value(r) = CASE x[1] = 0 /\ x[0] = 0 -> 0
                                         [] x[1] = 0 /\ x[0] = 1 -> 1
                                         [] x[1] = 1 /\ x[0] = 0 -> -2
                                         [] x[1] = 1 /\ x[0] = 1 -> -1

\* C17 witness: at width 2 a word with low bits 10 and bits set above them
\* was extended to -2
C17_Witness ==
    /\ se_out # None
    /\ se_in.bits = 2
    /\ se_in.from[1] = 1 /\ se_in.from[0] = 0 /\ se_in.from[2] = 1
    /\ i64_value(Unwrap(se_out)) = -2

----------------------------------------------------------------------------
(* Properties of tagged_16 *)

=============================================================================
